---- MODULE Spec2Model ----
(***************************************************************************)
(* The relay client (DeepgramService, backend-proxy variant) and the       *)
(* session that drives it (the AudioPulse component with its capture       *)
(* hook).  One action per event-loop task: a socket event handler runs     *)
(* together with the listeners it dispatches to synchronously and with     *)
(* the promise continuations (microtasks) it releases.                     *)
(*                                                                         *)
(* Objects that can no longer act are dropped from the state: a socket     *)
(* whose close event has been delivered, and a DeepgramService instance    *)
(* that is no longer referenced by the session and owns neither a socket   *)
(* nor a reconnect timer.  A reference kept to a closed socket is          *)
(* ClosedRef.                                                              *)
(*                                                                         *)
(* Spec is the session with its connection and capture control flow;       *)
(* transcript messages change neither and are left to SpecTranscript.      *)
(* SpecClient drives one DeepgramService alone, SpecCapture the capture    *)
(* hook alone, and SpecLevel the hook's level arithmetic from every level. *)
(* SpecTeardown is the session with the unmount of its component,          *)
(* SpecSentiment is App's handling of sentiment results, and SpecKeywords  *)
(* is the KeywordsDisplay component fed with keyword lists.                *)
(***************************************************************************)
EXTENDS Integers, Sequences, FiniteSets, TLC

\* Bounds of the model.
MaxSockets == 2   \* sockets and reconnect timers alive at the same time
MaxMicReqs == 1   \* getUserMedia requests pending at the same time
MaxPending == 2   \* the same, when the capture hook is driven on its own
MaxReads == 2     \* recorder chunks being read at the same time
MaxNodes == 2     \* worklet nodes and recorders producing at the same time
MaxFrames == 3    \* frames the capture engine produces
MaxLoads == 2     \* startAudioStreaming calls awaiting the module load
MaxKeywords == 2  \* keywords of one sentiment result
MaxRequests == 3  \* sentiment requests in flight at the same time
MaxEvents == 3    \* transcript events the relay sends
LevelScale == 100 \* fixed point: audioLevel 1.0 is LevelScale

\* Program constants.
maxReconnectAttempts == 3
reconnectDelay == 1000
maxDisplayed == 8

SockIds == 1..MaxSockets
ClientIds == 1..MaxSockets
NullRef == 0
ClosedRef == -1
CloseCodes == {1000, 1006, 1011}
OtherMessages == {"speechstarted", "speechended", "unknown", "malformed"}

\* The levels audioLevel is claimed to stay in, and the values the band RMS
\* of the analyser's byte data is sampled at (it lies in 0..255).
\* Transcript texts, as sequences of characters.
Hel == <<"h", "e", "l">>
Hello == <<"h", "e", "l", "l", "o">>
HelloWorld == <<"h", "e", "l", "l", "o", " ", "w", "o", "r", "l", "d">>
Texts == {<<>>, <<" ">>, Hel, Hello, HelloWorld, <<" ", "h", "i", " ">>}

Levels == 0..LevelScale
RmsSamples == {0, 64, 128, 255}

VARIABLES
  clients,          \* DeepgramService instances: ws, isConnected, reconnectAttempts, timers
  socks,            \* WebSocket objects: readyState, owner, the connect() promise made with it
  deepgramRef,      \* AudioPulse: deepgramRef.current (NullRef = null)
  connectionStatus, \* AudioPulse: connectionStatus
  capture,          \* useAudioCapture: isRecording, microphone stream, pending work
  transcripts,      \* the transcript state of AudioPulse, of App and of useDeepgram
  mounted,          \* the AudioPulse component is mounted
  last              \* the task that ran last and what it did (history)

vars ==
  <<clients, socks, deepgramRef, connectionStatus, capture, transcripts, mounted, last>>

\* A DeepgramService as its constructor leaves it.  timers: the pending
\* reconnect timers, each with its delay and whether disconnect() has been
\* called since it was armed (history); listeners: the session's four
\* listeners are attached; since: the reconnects scheduled since the last
\* 'connected' message, or since construction (history).
FreshClient ==
  [ws |-> NullRef, isConnected |-> FALSE, reconnectAttempts |-> 0,
   timers |-> <<>>, listeners |-> FALSE, since |-> 0]

\* An unused socket slot.  rs: the socket's state, "FAILING" being a socket
\* closed by the client before it opened (its readyState reads CLOSING);
\* promise: state of the promise returned by the connect() call that made
\* the socket; awaited: handleToggleRecording is suspended on it; errored:
\* the relay has sent an 'error' message on it (history).
FreeSock ==
  [rs |-> "FREE", owner |-> 0, promise |-> "pending", awaited |-> FALSE,
   errored |-> FALSE]

\* useAudioCapture's state as the hook's first render leaves it.
\* mediaStream: the microphone stream, audio context and analyser exist;
\* micReqs: getUserMedia requests pending; acquired: microphone streams
\* (and audio contexts) acquired so far; live: those of them whose tracks
\* are not stopped and whose context is open; error: audioState.error is set;
\* monitor: an iteration of the level-monitor loop is scheduled;
\* fades: the fadeLevel of each fade-out loop that has an iteration
\* scheduled; streaming: isStreamingRef with the callback attached;
\* worklets, recorders: the worklet nodes connected to the audio graph and
\* the recorders recording; nodeRef: what workletNodeRef holds; ported,
\* recorded: a worklet node, a recorder has been created, whose events may
\* still arrive; loads: the startAudioStreaming calls suspended on the
\* load of the worklet module; seq: frames produced so far, each numbered
\* by its place;
\* reads: the recorder chunks whose arrayBuffer() is awaited; lastOut: the
\* frame handed to the callback last (history); lastCall: the more recent
\* of the calls of startRecording and stopRecording (history).
FreshCapture ==
  [isRecording |-> FALSE, mediaStream |-> FALSE, micReqs |-> 0,
   acquired |-> 0, live |-> 0, error |-> FALSE, audioLevel |-> 0, monitor |-> FALSE,
   fades |-> <<>>, streaming |-> FALSE, worklets |-> 0, recorders |-> 0,
   nodeRef |-> "none", ported |-> FALSE, recorded |-> FALSE, loads |-> 0, seq |-> 0,
   reads |-> {}, lastOut |-> 0, lastCall |-> "none"]

\* What a task did.  kind: the task; code, pre: the close code and the value
\* of reconnectAttempts before a close event; sched: the delay of the
\* reconnect timer it armed (0: none); emitted: the events the service
\* dispatched, in order; settle: what it did to a pending connect() promise;
\* cont: it released the session's await of that promise;
\* startRec: startRecording was invoked; sent: the socket's send was called;
\* conn: isConnected before an open event or a sendAudio call; stale: the
\* timer that fired had been armed before a disconnect() call; was: the
\* state of the socket's connect() promise before an error or close event;
\* calls: the calls a toggle made, in order; level: audioLevel before the
\* task; invoked: the frame callback was invoked; streamed: isStreamingRef
\* before the task; pend: microphone requests pending before the task;
\* noop: the call changed nothing; frame, prev: the frame handed to the
\* callback and the one handed to it before; data: the sentiment response
\* a task received; emotionCalls: the calls of setCurrentEmotion it made;
\* text: the transcript of a transcript event; own: the service whose
\* socket the event of a socket task came from (0: no socket task);
\* threw: the task called a null callback, which raises a TypeError;
\* isFinal: the isFinal of a transcript
\* event; msg: the type of the message a message event carried; errored:
\* the socket of a close event had carried an 'error' message.
NoEv ==
  [kind |-> "init", code |-> 0, pre |-> 0, sched |-> 0, emitted |-> <<>>,
   settle |-> "none", cont |-> FALSE, startRec |-> FALSE, sent |-> FALSE, conn |-> FALSE,
   stale |-> FALSE, was |-> "none", calls |-> <<>>, level |-> 0,
   invoked |-> FALSE, streamed |-> FALSE, pend |-> 0, noop |-> FALSE,
   isFinal |-> FALSE, msg |-> "none", errored |-> FALSE, frame |-> 0, prev |-> 0,
   data |-> [emotion |-> "none", keywords |-> <<>>, hasKeywords |-> FALSE],
   emotionCalls |-> 0, text |-> <<>>, own |-> 0, threw |-> FALSE]

\* The transcript state of a fresh page.  pulse: AudioPulse's
\* transcriptState; app: App's transcript, interimTranscript and
\* fullTranscript; hook: the same three of useDeepgram; sent: the transcript
\* events the relay has sent to the session, in order (history); heard: the
\* number of events useDeepgram has handled (history); sentiment: App's
\* sentimentData (hasData: it is not null), currentEmotion and keywords,
\* with the sentiment requests in flight; display: KeywordsDisplay's
\* displayedKeywords (their texts), its isRecording prop and whether its
\* clear timer is armed, as the effects of its first render leave them.
NoTranscript == [current |-> <<>>, interim |-> <<>>, full |-> <<>>]
NoDisplay == [keywords |-> <<>>, isRecording |-> FALSE, timer |-> TRUE]
NoSentiment ==
  [hasData |-> FALSE, currentEmotion |-> "neutral", keywords |-> <<>>, requests |-> 0]
FreshTranscripts ==
  [pulse |-> NoTranscript, app |-> NoTranscript, hook |-> NoTranscript,
   sent |-> <<>>, heard |-> 0, sentiment |-> NoSentiment, display |-> NoDisplay]

Min(S) == CHOOSE x \in S : \A y \in S : x <= y

Owned(sk, c) == {s \in SockIds : sk[s].rs # "FREE" /\ sk[s].owner = c}
Live(sk) == {s \in SockIds : sk[s].rs # "FREE"}

RECURSIVE SumTimers(_, _)
SumTimers(cl, C) ==
  IF C = {} THEN 0
  ELSE LET c == CHOOSE x \in C : TRUE
       IN Len(cl[c].timers) + SumTimers(cl, C \ {c})

\* Sockets alive plus reconnect timers pending.
Load == Cardinality(Live(socks)) + SumTimers(clients, ClientIds)

\* Instances that can no longer act are forgotten.
NormClients(cl, sk, ref) ==
  [c \in ClientIds |->
     IF c # ref /\ cl[c].timers = <<>> /\ Owned(sk, c) = {}
     THEN FreshClient ELSE cl[c]]

\* The state of a component is dropped when it unmounts (it reads as on a
\* fresh page from then on) and React ignores later updates of it: the
\* refs change, the state does not.
DropState(cap) ==
  [cap EXCEPT !.isRecording = FALSE, !.error = FALSE, !.audioLevel = 0]

KeepState(cap) ==
  IF mounted THEN cap
  ELSE [cap EXCEPT !.isRecording = capture.isRecording, !.error = capture.error,
                   !.audioLevel = capture.audioLevel]

Commit(cl, sk, ref, st, cap, ev) ==
  /\ clients' = NormClients(cl, sk, ref)
  /\ socks' = sk
  /\ deepgramRef' = ref
  /\ connectionStatus' = IF mounted THEN st ELSE connectionStatus
  /\ capture' = KeepState(cap)
  /\ transcripts' = transcripts
  /\ mounted' = mounted
  /\ last' = ev

\* The close event of a socket follows its error event in the same task.
InTask == \E s \in SockIds : socks[s].rs = "CLOSED"

Init ==
  /\ clients = [c \in ClientIds |-> FreshClient]
  /\ socks = [s \in SockIds |-> FreeSock]
  /\ deepgramRef = NullRef
  /\ connectionStatus = "idle"
  /\ capture = FreshCapture
  /\ transcripts = FreshTranscripts
  /\ mounted = TRUE
  /\ last = NoEv

(***************************************************************************)
(* useAudioCapture, as far as the session's control flow depends on it.    *)
(***************************************************************************)

\* normalizedLevel = Math.min(rms / 128, 1)
normalizedLevelUnclamped(rms) == (rms * LevelScale) \div 128

normalizedLevel(rms) == Min({(rms * LevelScale) \div 128, LevelScale})

\* The state updater of a monitor iteration.
smoothLevel(prev, sample) == (prev * 7 + sample * 3) \div 10

\* fadeLevel *= 0.9, and the test fadeLevel > 0.01 that keeps the loop going.
fadeStep(f) == (f * 9) \div 10
fadeContinuesAlways(f) == f >= 0

fadeContinues(f) == f * 100 > LevelScale

\* monitorAudioLevel as created in a render where audioState.isRecording
\* was rec: it returns at once without an analyser or with rec false, else
\* it updates the level and schedules its next iteration.
monitorAudioLevel(cap, rec, rms) ==
  IF ~cap.mediaStream \/ ~rec THEN cap
  ELSE [cap EXCEPT !.audioLevel = smoothLevel(@, normalizedLevel(rms)),
                   !.monitor = TRUE]

\* startAudioStreamingWithWorklet, ok telling whether addModule and the
\* construction of the node succeed: the callback and the flag are set
\* first, then the node is made, connected and kept in workletNodeRef.
startAudioStreamingWithWorklet(cap, ok) ==
  IF ~cap.mediaStream THEN cap
  ELSE IF ok THEN [cap EXCEPT !.streaming = TRUE, !.worklets = @ + 1,
                              !.nodeRef = "worklet", !.ported = TRUE]
  ELSE [cap EXCEPT !.streaming = TRUE]

\* startAudioStreamingWithMediaRecorder: a recorder is started and kept in
\* workletNodeRef.
startAudioStreamingWithMediaRecorder(cap) ==
  IF ~cap.mediaStream THEN cap
  ELSE [cap EXCEPT !.streaming = TRUE, !.recorders = @ + 1,
                   !.nodeRef = "recorder", !.recorded = TRUE]

\* startAudioStreaming: the worklet path, and the recorder fallback when
\* the worklet path returned false (it does so too while the microphone is
\* not initialized, and then the fallback returns without effect).
startAudioStreaming(cap, ok) ==
  IF cap.mediaStream /\ ok THEN startAudioStreamingWithWorklet(cap, ok)
  ELSE startAudioStreamingWithMediaRecorder(startAudioStreamingWithWorklet(cap, ok))

\* startAudioStreaming up to the await of audioWorklet.addModule: without
\* an audio context both strategies return at once; with one, the callback
\* and the flag are set and the call suspends.
awaitAddModule(cap) ==
  IF ~cap.mediaStream THEN cap
  ELSE [cap EXCEPT !.streaming = TRUE, !.loads = @ + 1]

\* The await of addModule settles for a suspended startAudioStreaming call.
\* ok: the node is made, connected and kept in workletNodeRef; otherwise
\* the catch block returns false and startAudioStreaming calls
\* startAudioStreamingWithMediaRecorder.  Neither reads isStreamingRef.
addModuleSettled(cap, ok) ==
  IF ok THEN [cap EXCEPT !.loads = @ - 1, !.worklets = @ + 1,
                         !.nodeRef = "worklet", !.ported = TRUE]
  ELSE startAudioStreamingWithMediaRecorder([cap EXCEPT !.loads = @ - 1])

\* stopAudioStreaming: clear the flag, disconnect the node or stop the
\* recorder that workletNodeRef holds, and detach the callback.
stopAudioStreaming(cap) ==
  [cap EXCEPT !.streaming = FALSE,
              !.worklets = IF cap.nodeRef = "worklet" THEN @ - 1 ELSE @,
              !.recorders = IF cap.nodeRef = "recorder" THEN @ - 1 ELSE @,
              !.nodeRef = "none"]

\* The end of startRecording: isRecording is set and monitorAudioLevel is
\* called.  startRecording passed its guard, so it was created in a render
\* with isRecording false, and so was the monitorAudioLevel it holds.
recordingStarted(cap) ==
  monitorAudioLevel([cap EXCEPT !.isRecording = TRUE, !.error = FALSE], FALSE, 0)

\* startRecording, as created in a render where audioState.isRecording was
\* rec, up to its first suspension: without a microphone stream it
\* requests the microphone and suspends.
startRecording(cap, rec) ==
  LET c1 == [cap EXCEPT !.lastCall = "start"]
  IN IF rec THEN c1
     ELSE IF cap.mediaStream THEN recordingStarted(c1)
     ELSE [c1 EXCEPT !.micReqs = @ + 1]

\* getUserMedia resolved: initializeAudio completes and startRecording
\* runs to its end.
micGranted(cap) ==
  recordingStarted([cap EXCEPT !.micReqs = @ - 1, !.mediaStream = TRUE,
                               !.acquired = @ + 1, !.live = @ + 1])

micDeniedNotRethrown(cap) ==
  recordingStarted([cap EXCEPT !.micReqs = @ - 1])

\* getUserMedia rejected: initializeAudio records the error and rethrows,
\* and startRecording's catch block records its own.
micDenied(cap) == [cap EXCEPT !.micReqs = @ - 1, !.error = TRUE]

\* The guard of port.onmessage and of ondataavailable: the callback is
\* attached and isStreamingRef is set.
frameInvokesUnguarded(cap) == cap.ported \/ cap.recorded

frameInvokes(cap) == cap.streaming

\* The step of a fade-out loop whose fadeLevel is f.
fadeOut(cap, f) ==
  IF fadeContinues(fadeStep(f))
  THEN [cap EXCEPT !.audioLevel = fadeStep(f), !.fades = Append(@, fadeStep(f))]
  ELSE [cap EXCEPT !.isRecording = FALSE, !.audioLevel = 0]

\* stopRecording: stop streaming, cancel the scheduled monitor iteration and
\* run the first step of a fade-out loop from the current level.
stopRecording(cap) ==
  LET c1 == [cap EXCEPT !.lastCall = "stop"]
  IN IF ~cap.isRecording THEN c1
     ELSE fadeOut([stopAudioStreaming(c1) EXCEPT !.monitor = FALSE], cap.audioLevel)

\* One display frame: every scheduled fade-out loop runs its next step, in
\* the order the loops were started.
RECURSIVE fadeFrame(_, _)
fadeFrame(cap, q) ==
  IF q = <<>> THEN cap ELSE fadeFrame(fadeOut(cap, Head(q)), Tail(q))

\* The cleanup of the hook's unmount effect: stopAudioStreaming, the
\* scheduled monitor iteration cancelled, the tracks of the stream in
\* mediaStreamRef stopped and the context in audioContextRef closed.
releaseAudio(cap) ==
  [stopAudioStreaming(cap) EXCEPT !.monitor = FALSE,
                                  !.live = IF cap.mediaStream THEN @ - 1 ELSE @]

\* The tail of handleToggleRecording's start path: await startRecording(),
\* then startAudioStreaming(callback).  The session runs where the worklet
\* module loads before the next task and the worklet path starts; the
\* fallback and a load that is still pending when the next task runs are
\* driven with the hook on its own.
StartCapture(cap) ==
  LET r == startRecording(cap, FALSE)
  IN IF r.micReqs > cap.micReqs THEN r ELSE startAudioStreaming(r, TRUE)

(***************************************************************************)
(* DeepgramService (backend-proxy variant).                                *)
(***************************************************************************)

\* dispatchEvent to the listeners initializeDeepgram attached: the
\* connection status the session shows after event `name`.
Listen(cl, c, st, name) ==
  IF ~cl[c].listeners THEN st
  ELSE CASE name = "connected" -> "connected"
         [] name = "error" -> "error"
         [] name = "disconnected" -> "idle"
         [] OTHER -> st

readyState(sk, ref) ==
  IF ref \notin SockIds THEN "CLOSED"
  ELSE IF sk[ref].rs = "FAILING" THEN "CLOSING" ELSE sk[ref].rs

\* connect(): a new socket, kept in this.ws; aw: the session awaits the
\* returned promise.
connect(cl, sk, c, aw) ==
  LET s == Min(SockIds \ Live(sk))
  IN [cl |-> [cl EXCEPT ![c].ws = s],
      sk |-> [sk EXCEPT ![s] = [FreeSock EXCEPT !.rs = "CONNECTING",
                                                !.owner = c, !.awaited = aw]]]

\* WebSocket.close(): starts the closing handshake of a socket that is
\* connecting or open, and does nothing otherwise.
wsClose(sk, ref) ==
  IF ref \notin SockIds THEN sk
  ELSE CASE sk[ref].rs = "CONNECTING" -> [sk EXCEPT ![ref].rs = "FAILING"]
         [] sk[ref].rs = "OPEN" -> [sk EXCEPT ![ref].rs = "CLOSING"]
         [] OTHER -> sk

\* The timers pending when disconnect() is called, marked as such.
MarkStale(q) == [i \in 1..Len(q) |-> [q[i] EXCEPT !.stale = TRUE]]

disconnect(cl, sk, c) ==
  IF cl[c].ws = NullRef
  THEN [cl |-> [cl EXCEPT ![c].timers = MarkStale(@)], sk |-> sk]
  ELSE [cl |-> [cl EXCEPT ![c].isConnected = FALSE, ![c].ws = NullRef,
                          ![c].timers = MarkStale(@)],
        sk |-> wsClose(sk, cl[c].ws)]

sendAudioSendsUnchecked(cl, sk, c) == cl[c].ws # NullRef

\* sendAudio reaches ws.send exactly when this holds.
sendAudioSends(cl, sk, c) ==
  cl[c].ws # NullRef /\ readyState(sk, cl[c].ws) = "OPEN"

getConnectionStatusSocketOnly(cl, sk, c) == readyState(sk, cl[c].ws) = "OPEN"

getConnectionStatus(cl, sk, c) ==
  cl[c].isConnected /\ readyState(sk, cl[c].ws) = "OPEN"

attemptReconnectDelayFirst(cl, c) ==
  [cl EXCEPT ![c].reconnectAttempts = @ + 1,
             ![c].timers = Append(@, [delay |-> reconnectDelay * cl[c].reconnectAttempts,
                                      stale |-> FALSE])]

\* attemptReconnect: the counter is incremented, then a timer is armed with
\* delay reconnectDelay * reconnectAttempts.
attemptReconnect(cl, c) ==
  [cl EXCEPT ![c].reconnectAttempts = @ + 1,
             ![c].timers = Append(@, [delay |-> reconnectDelay * (cl[c].reconnectAttempts + 1),
                                      stale |-> FALSE])]

ShouldReconnectUncapped(code, attempts) == code # 1006 /\ code # 1000
ShouldReconnectOnNormal(code, attempts) ==
  code # 1006 /\ attempts < maxReconnectAttempts

\* The condition under which ws.onclose calls attemptReconnect.
ShouldReconnect(code, attempts) ==
  code # 1006 /\ code # 1000 /\ attempts < maxReconnectAttempts

\* case 'connected' of ws.onmessage, with the continuation of the session's
\* await when this settles the promise.
OnConnectedMsg(cl, sk, st, cap, s, kind) ==
  LET c == sk[s].owner
      pend == sk[s].promise = "pending"
      cont == pend /\ sk[s].awaited
  IN [cl |-> [cl EXCEPT ![c].isConnected = TRUE, ![c].reconnectAttempts = 0,
                        ![c].since = 0],
      sk |-> [sk EXCEPT ![s].promise = IF pend THEN "resolved" ELSE @,
                        ![s].awaited = FALSE],
      st |-> Listen(cl, c, st, "connected"),
      cap |-> IF cont THEN StartCapture(cap) ELSE cap,
      ev |-> [NoEv EXCEPT !.kind = kind, !.emitted = <<"connected">>,
                          !.settle = IF pend THEN "resolved" ELSE "none",
                          !.cont = cont, !.startRec = cont,
                          !.conn = (kind = "open") /\ cl[c].isConnected]]

\* emit('error') and reject(), shared by case 'error' of ws.onmessage and by
\* ws.onerror, with the continuation of the session's await: the catch block
\* of initializeDeepgram, after which handleToggleRecording returns.
RejectWith(cl, sk, st, cap, s, kind) ==
  LET c == sk[s].owner
      pend == sk[s].promise = "pending"
      cont == pend /\ sk[s].awaited
  IN [cl |-> cl,
      sk |-> [sk EXCEPT ![s].promise = IF pend THEN "rejected" ELSE @,
                        ![s].awaited = FALSE,
                        ![s].errored = @ \/ kind = "message"],
      st |-> IF cont THEN "error" ELSE Listen(cl, c, st, "error"),
      cap |-> cap,
      ev |-> [NoEv EXCEPT !.kind = kind, !.emitted = <<"error">>,
                          !.settle = IF pend THEN "rejected" ELSE "none",
                          !.cont = cont,
                          !.was = IF kind = "error" THEN sk[s].promise ELSE "none"]]

\* The event a message of another type makes the service emit.
EmittedFor(m) ==
  CASE m = "speechstarted" -> <<"speechStarted">>
    [] m = "speechended" -> <<"speechEnded">>
    [] OTHER -> <<>>

onmessageOtherRejects(cl, sk, st, cap, s, m) ==
  IF m = "malformed" THEN RejectWith(cl, sk, st, cap, s, "message")
  ELSE [cl |-> cl, sk |-> sk, st |-> st, cap |-> cap,
        ev |-> [NoEv EXCEPT !.kind = "message", !.emitted = EmittedFor(m)]]

\* ws.onmessage for the cases that settle nothing: 'speechstarted' and
\* 'speechended' emit an event the session does not listen to, the default
\* case and the catch block of JSON.parse log only.
onmessageOther(cl, sk, st, cap, s, m) ==
  [cl |-> cl, sk |-> sk, st |-> st, cap |-> cap,
   ev |-> [NoEv EXCEPT !.kind = "message", !.emitted = EmittedFor(m)]]

\* ws.onopen of the direct-vendor variant: socket-open counts as connected.
onopenDirect(cl, sk, st, cap, s) == OnConnectedMsg(cl, sk, st, cap, s, "open")

\* ws.onopen: logs only.
onopen(cl, sk, st, cap, s) ==
  [cl |-> cl, sk |-> sk, st |-> st, cap |-> cap,
   ev |-> [NoEv EXCEPT !.kind = "open", !.conn = cl[sk[s].owner].isConnected]]

onerrorKeepFlag(cl, sk, st, cap, s) == RejectWith(cl, sk, st, cap, s, "error")

\* ws.onerror
onerror(cl, sk, st, cap, s) ==
  RejectWith([cl EXCEPT ![sk[s].owner].isConnected = FALSE], sk, st, cap, s, "error")

\* ws.onclose; the socket is gone afterwards.
onclose(cl, sk, st, cap, s, code) ==
  LET c == sk[s].owner
      a == cl[c].reconnectAttempts
      cl1 == [cl EXCEPT ![c].isConnected = FALSE]
      cl2 == IF ShouldReconnect(code, a) THEN attemptReconnect(cl1, c) ELSE cl1
      armed == Len(cl2[c].timers) > Len(cl[c].timers)
      cl3 == IF armed THEN [cl2 EXCEPT ![c].since = @ + 1] ELSE cl2
  IN [cl |-> [x \in ClientIds |->
                IF cl3[x].ws = s THEN [cl3[x] EXCEPT !.ws = ClosedRef] ELSE cl3[x]],
      sk |-> [sk EXCEPT ![s] = FreeSock],
      st |-> Listen(cl, c, st, "disconnected"),
      cap |-> cap,
      ev |-> [NoEv EXCEPT !.kind = "close", !.code = code, !.pre = a,
                          !.sched = IF armed THEN cl2[c].timers[Len(cl2[c].timers)].delay
                                    ELSE 0,
                          !.emitted = <<"disconnected">>,
                          !.errored = sk[s].errored,
                          !.was = sk[s].promise]]

RemoveAt(q, i) == SubSeq(q, 1, i - 1) \o SubSeq(q, i + 1, Len(q))

\* The task of a handler of socket s.
Run(r, ref, s) ==
  /\ r.cap.micReqs <= MaxMicReqs
  /\ r.cap.worklets + r.cap.recorders <= MaxNodes
  /\ Commit(r.cl, r.sk, ref, r.st, r.cap, [r.ev EXCEPT !.own = socks[s].owner])

(***************************************************************************)
(* Socket events and timers.                                               *)
(***************************************************************************)

WsOpen(s) ==
  /\ ~InTask
  /\ socks[s].rs = "CONNECTING"
  /\ Run(onopen(clients, [socks EXCEPT ![s].rs = "OPEN"],
                connectionStatus, capture, s), deepgramRef, s)

MsgConnected(s) ==
  /\ ~InTask
  /\ socks[s].rs = "OPEN"
  /\ LET r == OnConnectedMsg(clients, socks, connectionStatus, capture, s, "message")
     IN Run([r EXCEPT !.ev.msg = "connected"], deepgramRef, s)

MsgError(s) ==
  /\ ~InTask
  /\ socks[s].rs = "OPEN"
  /\ LET r == RejectWith(clients, socks, connectionStatus, capture, s, "message")
     IN Run([r EXCEPT !.ev.msg = "error"], deepgramRef, s)

MsgOther(s, m) ==
  /\ ~InTask
  /\ socks[s].rs = "OPEN"
  /\ LET r == onmessageOther(clients, socks, connectionStatus, capture, s, m)
     IN Run([r EXCEPT !.ev.msg = m], deepgramRef, s)

\* The connection fails: the error event, with the close event to follow
\* in the same task.
WsError(s) ==
  /\ ~InTask
  /\ socks[s].rs \in {"CONNECTING", "OPEN", "CLOSING", "FAILING"}
  /\ Run(onerror(clients, [socks EXCEPT ![s].rs = "CLOSED"],
                 connectionStatus, capture, s), deepgramRef, s)

WsCloseAfterError(s) ==
  /\ socks[s].rs = "CLOSED"
  /\ Run(onclose(clients, socks, connectionStatus, capture, s, 1006), deepgramRef, s)

\* The connection closes without an error event: by the relay's close
\* frame, by the end of a closing handshake the client started, or by the
\* loss of the transport.  A socket closed before it opened always fails.
WsClose(s, code) ==
  /\ ~InTask
  /\ \/ socks[s].rs = "OPEN"
     \/ socks[s].rs = "CLOSING" /\ code # 1011
  /\ Run(onclose(clients, socks, connectionStatus, capture, s, code), deepgramRef, s)

\* The timer armed by attemptReconnect fires: this.connect().catch(log).
TimerFire(c, i) ==
  /\ ~InTask
  /\ i \in 1..Len(clients[c].timers)
  /\ LET cl1 == [clients EXCEPT ![c].timers = RemoveAt(@, i)]
         r == connect(cl1, socks, c, FALSE)
     IN Commit(r.cl, r.sk, deepgramRef, connectionStatus, capture,
               [NoEv EXCEPT !.kind = "timer", !.stale = clients[c].timers[i].stale])

(***************************************************************************)
(* The session: AudioPulse.                                                *)
(***************************************************************************)

\* Instances that own neither a socket nor a timer: a new DeepgramService
\* takes the first of them.
Inert == {c \in ClientIds : clients[c].timers = <<>> /\ Owned(socks, c) = {}}

\* initializeDeepgram up to its await: a new service with the four
\* listeners, kept in deepgramRef, and connect() called on it.
initializeDeepgram(cl, sk, c) ==
  connect([cl EXCEPT ![c] = [FreshClient EXCEPT !.listeners = TRUE]], sk, c, TRUE)

disconnectDeepgram(cl, sk, ref, st) ==
  IF ref = NullRef THEN [cl |-> cl, sk |-> sk, ref |-> ref, st |-> st]
  ELSE LET r == disconnect(cl, sk, ref)
       IN [cl |-> r.cl, sk |-> r.sk, ref |-> NullRef, st |-> "idle"]

\* The record button is disabled while the status is 'connecting'.
ButtonEnabled == connectionStatus # "connecting"

\* handleToggleRecording, isRecording false, status not 'connected':
\* initializeDeepgram is awaited.
ToggleStartConnect ==
  /\ ~InTask
  /\ mounted
  /\ ButtonEnabled
  /\ ~capture.isRecording
  /\ connectionStatus # "connected"
  /\ Load < MaxSockets
  /\ Inert # {}
  /\ LET c == Min(Inert)
         r == initializeDeepgram(clients, socks, c)
     IN Commit(r.cl, r.sk, c, "connecting", capture,
               [NoEv EXCEPT !.kind = "toggleStart"])

\* handleToggleRecording, isRecording false, status 'connected': capture
\* starts without a connect.
ToggleStartConnected ==
  /\ ~InTask
  /\ mounted
  /\ ButtonEnabled
  /\ ~capture.isRecording
  /\ connectionStatus = "connected"
  /\ LET cap == StartCapture(capture)
     IN /\ cap.micReqs <= MaxMicReqs
        /\ cap.worklets + cap.recorders <= MaxNodes
        /\ Commit(clients, socks, deepgramRef, connectionStatus, cap,
                  [NoEv EXCEPT !.kind = "toggleStart", !.startRec = TRUE])

\* handleToggleRecording, isRecording true: stopRecording,
\* stopAudioStreaming, disconnectDeepgram.
ToggleStop ==
  /\ ~InTask
  /\ mounted
  /\ ButtonEnabled
  /\ capture.isRecording
  /\ LET cap == stopAudioStreaming(stopRecording(capture))
         r == disconnectDeepgram(clients, socks, deepgramRef, connectionStatus)
     IN Commit(r.cl, r.sk, r.ref, r.st, cap,
               [NoEv EXCEPT !.kind = "toggleStop",
                            !.calls = <<"stopRecording", "stopAudioStreaming",
                                        "disconnectDeepgram">>])

\* The capture engine hands a frame to the callback handleToggleRecording
\* gave to startAudioStreaming.
Frame ==
  /\ ~InTask
  /\ capture.streaming
  /\ LET ok == /\ deepgramRef # NullRef
               /\ getConnectionStatus(clients, socks, deepgramRef)
         sent == ok /\ sendAudioSends(clients, socks, deepgramRef)
     IN Commit(clients, socks, deepgramRef, connectionStatus, capture,
               [NoEv EXCEPT !.kind = "frame", !.sent = sent])

\* getUserMedia resolves: startRecording completes, then the toggle's
\* startAudioStreaming runs.
MicGranted ==
  /\ ~InTask
  /\ capture.micReqs > 0
  /\ LET cap == startAudioStreaming(micGranted(capture), TRUE)
     IN /\ cap.worklets + cap.recorders <= MaxNodes
        /\ Commit(clients, socks, deepgramRef, connectionStatus, cap,
                  [NoEv EXCEPT !.kind = "micGranted"])

\* getUserMedia rejects: startRecording records the error and returns, then
\* the toggle's startAudioStreaming runs.
MicDenied ==
  /\ ~InTask
  /\ capture.micReqs > 0
  /\ Commit(clients, socks, deepgramRef, connectionStatus,
            startAudioStreaming(micDenied(capture), TRUE),
            [NoEv EXCEPT !.kind = "micDenied"])

SocketNext ==
  \/ \E s \in SockIds : WsOpen(s)
  \/ \E s \in SockIds : MsgConnected(s)
  \/ \E s \in SockIds : MsgError(s)
  \/ \E s \in SockIds, m \in OtherMessages : MsgOther(s, m)
  \/ \E s \in SockIds : WsError(s)
  \/ \E s \in SockIds : WsCloseAfterError(s)
  \/ \E s \in SockIds, code \in CloseCodes : WsClose(s, code)
  \/ \E c \in ClientIds, i \in 1..MaxSockets : TimerFire(c, i)

Next ==
  \/ SocketNext
  \/ ToggleStartConnect
  \/ ToggleStartConnected
  \/ ToggleStop
  \/ Frame
  \/ MicGranted
  \/ MicDenied

Spec == Init /\ [][Next]_vars

\* The component unmounts: the cleanup of AudioPulse's unmount effect
\* (disconnectDeepgram) and that of useAudioCapture's.
Unmount ==
  /\ ~InTask
  /\ mounted
  /\ LET r == disconnectDeepgram(clients, socks, deepgramRef, connectionStatus)
     IN /\ clients' = NormClients(r.cl, r.sk, r.ref)
        /\ socks' = r.sk
        /\ deepgramRef' = r.ref
        /\ connectionStatus' = "idle"
        /\ capture' = DropState(releaseAudio(capture))
        /\ transcripts' = transcripts
        /\ mounted' = FALSE
        /\ last' = [NoEv EXCEPT !.kind = "unmount"]

NextTeardown ==
  \/ Next
  \/ Unmount

\* The session up to and beyond the end of the component's life.
SpecTeardown == Init /\ [][NextTeardown]_vars

(***************************************************************************)
(* One DeepgramService driven through its public methods by an arbitrary   *)
(* caller, without the session.                                            *)
(***************************************************************************)

TheClient == 1

InitClient ==
  /\ clients = [c \in ClientIds |-> FreshClient]
  /\ socks = [s \in SockIds |-> FreeSock]
  /\ deepgramRef = TheClient
  /\ connectionStatus = "idle"
  /\ capture = FreshCapture
  /\ transcripts = FreshTranscripts
  /\ mounted = TRUE
  /\ last = NoEv

ApiConnect ==
  /\ ~InTask
  /\ Load < MaxSockets
  /\ LET r == connect(clients, socks, TheClient, FALSE)
     IN Commit(r.cl, r.sk, deepgramRef, connectionStatus, capture,
               [NoEv EXCEPT !.kind = "connect"])

ApiDisconnect ==
  /\ ~InTask
  /\ LET r == disconnect(clients, socks, TheClient)
     IN Commit(r.cl, r.sk, deepgramRef, connectionStatus, capture,
               [NoEv EXCEPT !.kind = "disconnect"])

ApiSendAudio ==
  /\ ~InTask
  /\ Commit(clients, socks, deepgramRef, connectionStatus, capture,
            [NoEv EXCEPT !.kind = "sendAudio",
                         !.sent = sendAudioSends(clients, socks, TheClient),
                         !.conn = clients[TheClient].isConnected])

NextClient ==
  \/ SocketNext
  \/ ApiConnect
  \/ ApiDisconnect
  \/ ApiSendAudio

SpecClient == InitClient /\ [][NextClient]_vars

(***************************************************************************)
(* useAudioCapture driven through the functions it returns by an arbitrary *)
(* caller, without the session; the caller holds the functions of the      *)
(* latest render.                                                          *)
(***************************************************************************)

Hook(cap, ev) ==
  /\ Cardinality(cap.reads) <= MaxReads
  /\ cap.worklets + cap.recorders <= MaxNodes
  /\ cap.seq <= MaxFrames
  /\ Commit(clients, socks, deepgramRef, connectionStatus, cap, ev)

CallStartRecording ==
  LET cap == startRecording(capture, capture.isRecording)
  IN /\ cap.micReqs <= MaxPending
     /\ Hook(cap, [NoEv EXCEPT !.kind = "startRecording", !.pend = capture.micReqs,
                               !.level = capture.audioLevel])

\* A fade-out, once running, is left to finish before the next call.
CallStopRecording ==
  /\ capture.fades = <<>>
  /\ Hook(stopRecording(capture),
          [NoEv EXCEPT !.kind = "stopRecording", !.level = capture.audioLevel,
                       !.noop = ~capture.isRecording])

\* startAudioStreaming(callback), up to its suspension.
CallStartStreaming ==
  LET cap == awaitAddModule(capture)
  IN /\ cap.loads <= MaxLoads
     /\ Hook(cap, [NoEv EXCEPT !.kind = "startAudioStreaming",
                               !.streamed = capture.streaming])

\* The module load of a suspended startAudioStreaming call settles; ok: it
\* succeeds.  The call runs to its end.
AddModuleSettled(ok) ==
  /\ capture.loads > 0
  /\ Hook(addModuleSettled(capture, ok),
          [NoEv EXCEPT !.kind = "addModule", !.streamed = capture.streaming])

CallStopStreaming ==
  LET cap == stopAudioStreaming(capture)
  IN /\ ~cap.streaming
     /\ Hook(cap, [NoEv EXCEPT !.kind = "stopAudioStreaming",
                               !.streamed = capture.streaming,
                               !.noop = (cap = capture)])

\* getUserMedia settles for the startRecording call that requested it.
HookMicGranted ==
  /\ capture.micReqs > 0
  /\ Hook(micGranted(capture),
          [NoEv EXCEPT !.kind = "micGranted", !.pend = capture.micReqs])

HookMicDenied ==
  /\ capture.micReqs > 0
  /\ Hook(micDenied(capture),
          [NoEv EXCEPT !.kind = "micDenied", !.pend = capture.micReqs])

\* The next frame is produced by a worklet node and its message, which may
\* have been posted before the node was detached, arrives: port.onmessage.
\* The messages of a port arrive in the order they were posted.
PortMessage ==
  /\ capture.ported
  /\ LET n == capture.seq + 1
         inv == frameInvokes(capture)
     IN Hook([capture EXCEPT !.seq = n, !.lastOut = IF inv THEN n ELSE @],
             [NoEv EXCEPT !.kind = "portMessage", !.streamed = capture.streaming,
                          !.invoked = inv, !.frame = IF inv THEN n ELSE 0,
                          !.prev = capture.lastOut])

\* The next frame is produced by a recorder as a chunk, the one its stop()
\* flushes included: ondataavailable up to its await of arrayBuffer().
DataAvailable ==
  /\ capture.recorded
  /\ LET n == capture.seq + 1
     IN Hook([capture EXCEPT !.seq = n,
                             !.reads = IF frameInvokes(capture) THEN @ \cup {n} ELSE @],
             [NoEv EXCEPT !.kind = "dataAvailable", !.streamed = capture.streaming])

\* arrayBuffer() resolved for chunk n, one of those being read: the
\* callback attached now is called, and the call throws when none is
\* attached.  Nothing orders the reads of two chunks.
DataRead(n) ==
  /\ n \in capture.reads
  /\ LET inv == capture.streaming
     IN Hook([capture EXCEPT !.reads = @ \ {n}, !.lastOut = IF inv THEN n ELSE @],
             [NoEv EXCEPT !.kind = "dataRead", !.streamed = capture.streaming,
                          !.invoked = inv, !.frame = IF inv THEN n ELSE 0,
                          !.prev = capture.lastOut, !.threw = ~inv])

NextCapture ==
  \/ CallStartRecording
  \/ CallStopRecording
  \/ CallStartStreaming
  \/ \E ok \in BOOLEAN : AddModuleSettled(ok)
  \/ CallStopStreaming
  \/ HookMicGranted
  \/ HookMicDenied
  \/ PortMessage
  \/ DataAvailable
  \/ \E n \in 1..MaxFrames : DataRead(n)

SpecCapture == Init /\ [][NextCapture]_vars

(***************************************************************************)
(* The level arithmetic of the capture hook.  The monitor loop and a fade  *)
(* that lasts more than one step need a level above zero, so the hook is   *)
(* started here from every level, with a monitor loop that passed its      *)
(* guard scheduled, as well as from its first render.                      *)
(***************************************************************************)

InitLevel ==
  /\ clients = [c \in ClientIds |-> FreshClient]
  /\ socks = [s \in SockIds |-> FreeSock]
  /\ deepgramRef = NullRef
  /\ connectionStatus = "idle"
  /\ capture \in {FreshCapture} \cup
       {[FreshCapture EXCEPT !.isRecording = TRUE, !.mediaStream = TRUE,
                             !.acquired = 1, !.live = 1, !.lastCall = "start",
                             !.monitor = TRUE, !.audioLevel = l] : l \in Levels}
  /\ transcripts = FreshTranscripts
  /\ mounted = TRUE
  /\ last = NoEv

\* The scheduled iteration of a monitor loop that passed its guard: its
\* closure has isRecording true.
MonitorTick(rms) ==
  /\ capture.monitor
  /\ Hook(monitorAudioLevel([capture EXCEPT !.monitor = FALSE], TRUE, rms),
          [NoEv EXCEPT !.kind = "monitorTick", !.level = capture.audioLevel])

\* One display frame of the fade-out.
FadeTick ==
  /\ capture.fades # <<>>
  /\ Hook(fadeFrame([capture EXCEPT !.fades = <<>>], capture.fades),
          [NoEv EXCEPT !.kind = "fadeTick", !.level = capture.audioLevel])

NextLevel ==
  \/ CallStartRecording
  \/ CallStopRecording
  \/ HookMicGranted
  \/ HookMicDenied
  \/ \E rms \in RmsSamples : MonitorTick(rms)
  \/ FadeTick

\* requestAnimationFrame runs the scheduled fade step at the next frame.
SpecLevel == InitLevel /\ [][NextLevel]_vars /\ WF_vars(FadeTick)

(***************************************************************************)
(* Transcript aggregation: the session's 'transcript' listener with App's  *)
(* handleTranscript behind it, and the useDeepgram hook.                   *)
(***************************************************************************)

\* String.prototype.trim
RECURSIVE trimStart(_)
trimStart(t) ==
  IF t # <<>> /\ Head(t) = " " THEN trimStart(Tail(t)) ELSE t

RECURSIVE trimEnd(_)
trimEnd(t) ==
  IF t # <<>> /\ t[Len(t)] = " " THEN trimEnd(SubSeq(t, 1, Len(t) - 1)) ELSE t

trim(t) == trimEnd(trimStart(t))

\* App's handleTranscript(text, isFinal).
handleTranscript(a, text, fin) ==
  IF fin THEN [current |-> text, interim |-> <<>>, full |-> Append(a.full, text)]
  ELSE [a EXCEPT !.interim = text]

transcriptListenerUntrimmed(ts, fin, text) ==
  IF fin
  THEN IF trim(text) # <<>>
       THEN [ts EXCEPT !.pulse = [current |-> text, interim |-> <<>>,
                                  full |-> Append(@.full, text)],
                       !.app = handleTranscript(@, text, TRUE)]
       ELSE ts
  ELSE [ts EXCEPT !.pulse.interim = text,
                  !.app = handleTranscript(@, text, FALSE)]

transcriptListenerInterimResets(ts, fin, text) ==
  IF fin
  THEN IF trim(text) # <<>>
       THEN [ts EXCEPT !.pulse = [current |-> trim(text), interim |-> <<>>,
                                  full |-> Append(@.full, trim(text))],
                       !.app = handleTranscript(@, trim(text), TRUE)]
       ELSE ts
  ELSE [ts EXCEPT !.pulse = [NoTranscript EXCEPT !.interim = text],
                  !.app = handleTranscript(@, text, FALSE)]

\* The 'transcript' listener of initializeDeepgram, with its onTranscript
\* calls.
transcriptListener(ts, fin, text) ==
  IF fin
  THEN IF trim(text) # <<>>
       THEN [ts EXCEPT !.pulse = [current |-> trim(text), interim |-> <<>>,
                                  full |-> Append(@.full, trim(text))],
                       !.app = handleTranscript(@, trim(text), TRUE)]
       ELSE ts
  ELSE [ts EXCEPT !.pulse.interim = text,
                  !.app = handleTranscript(@, text, FALSE)]

\* useDeepgram's handleTranscript.
hookHandleTranscript(h, fin, text) ==
  IF fin
  THEN IF trim(text) # <<>>
       THEN [current |-> trim(text), interim |-> <<>>,
             full |-> Append(h.full, trim(text))]
       ELSE h
  ELSE [h EXCEPT !.interim = text]

\* Transcript events handled so far, by the session and by the hook.
Handled == Len(transcripts.sent) + transcripts.heard

\* A 'transcript' message of the relay: case 'transcript' of ws.onmessage,
\* and the session's listener.
MsgTranscript(s, fin, text) ==
  /\ ~InTask
  /\ socks[s].rs = "OPEN"
  /\ Handled < MaxEvents
  /\ clients' = clients
  /\ socks' = socks
  /\ deepgramRef' = deepgramRef
  /\ connectionStatus' = connectionStatus
  /\ capture' = capture
  /\ mounted' = mounted
  /\ transcripts' =
       [(IF clients[socks[s].owner].listeners
         THEN transcriptListener(transcripts, fin, text) ELSE transcripts)
        EXCEPT !.sent = Append(@, [isFinal |-> fin, transcript |-> text])]
  /\ last' = [NoEv EXCEPT !.kind = "transcript", !.emitted = <<"transcript">>,
                          !.isFinal = fin, !.msg = "transcript", !.text = text]

\* A 'transcript' event of the service useDeepgram holds.
HookTranscript(fin, text) ==
  /\ Handled < MaxEvents
  /\ transcripts' = [transcripts EXCEPT !.hook = hookHandleTranscript(@, fin, text),
                                        !.heard = @ + 1]
  /\ last' = [NoEv EXCEPT !.kind = "hookTranscript", !.isFinal = fin, !.text = text]
  /\ UNCHANGED <<clients, socks, deepgramRef, connectionStatus, capture, mounted>>

\* useDeepgram's clearTranscripts.
clearTranscripts ==
  /\ transcripts' = [transcripts EXCEPT !.hook = NoTranscript]
  /\ last' = [NoEv EXCEPT !.kind = "clearTranscripts"]
  /\ UNCHANGED <<clients, socks, deepgramRef, connectionStatus, capture, mounted>>

NextTranscript ==
  \/ ToggleStartConnect
  \/ \E s \in SockIds : WsOpen(s)
  \/ \E s \in SockIds : MsgConnected(s)
  \/ \E s \in SockIds, fin \in BOOLEAN, text \in Texts : MsgTranscript(s, fin, text)
  \/ \E fin \in BOOLEAN, text \in Texts : HookTranscript(fin, text)
  \/ clearTranscripts

SpecTranscript == Init /\ [][NextTranscript]_vars

(***************************************************************************)
(* Sentiment results: App's handleSentimentUpdate, behind the session's    *)
(* request to the sentiment collaborator for each finalized sentence.      *)
(***************************************************************************)

\* The responses of the collaborator: an emotion and keywords in order;
\* hasKeywords: the keywords field is present.
Emotions == {"joy", "calm", "sadness", "neutral"}
KeywordLists == {<<>>, <<"thrilled">>, <<"happy", "today">>, <<"today", "happy">>}
Responses ==
  [emotion : Emotions, keywords : KeywordLists, hasKeywords : {TRUE}] \cup
  [emotion : Emotions, keywords : {<<>>}, hasKeywords : {FALSE}]

handleSentimentUpdateAccumulating(s, data) ==
  [state |-> [s EXCEPT !.hasData = TRUE, !.currentEmotion = data.emotion,
                       !.keywords = @ \o data.keywords],
   emotionCalls |-> 1]

\* App's handleSentimentUpdate(data): setSentimentData(data),
\* setCurrentEmotion(data.emotion), setKeywords(data.keywords || []).
handleSentimentUpdate(s, data) ==
  [state |-> [s EXCEPT !.hasData = TRUE, !.currentEmotion = data.emotion,
                       !.keywords = IF data.hasKeywords THEN data.keywords ELSE <<>>],
   emotionCalls |-> 1]

\* The session sends the text of a finalized sentence to the collaborator.
SentimentRequest(text) ==
  /\ trim(text) # <<>>
  /\ transcripts.sentiment.requests < MaxRequests
  /\ transcripts' = [transcripts EXCEPT !.sentiment.requests = @ + 1]
  /\ last' = [NoEv EXCEPT !.kind = "sentimentRequest"]
  /\ UNCHANGED <<clients, socks, deepgramRef, connectionStatus, capture, mounted>>

\* The collaborator answers a request: the session hands the result to
\* onSentimentUpdate, once.
SentimentResponse(data) ==
  /\ transcripts.sentiment.requests > 0
  /\ LET r == handleSentimentUpdate(
                 [transcripts.sentiment EXCEPT !.requests = @ - 1], data)
     IN /\ transcripts' = [transcripts EXCEPT !.sentiment = r.state]
        /\ last' = [NoEv EXCEPT !.kind = "sentimentResponse", !.data = data,
                                !.emotionCalls = r.emotionCalls]
  /\ UNCHANGED <<clients, socks, deepgramRef, connectionStatus, capture, mounted>>

\* A request fails: it is logged, and nothing else happens.
SentimentFailure ==
  /\ transcripts.sentiment.requests > 0
  /\ transcripts' = [transcripts EXCEPT !.sentiment.requests = @ - 1]
  /\ last' = [NoEv EXCEPT !.kind = "sentimentFailure"]
  /\ UNCHANGED <<clients, socks, deepgramRef, connectionStatus, capture, mounted>>

NextSentiment ==
  \/ \E text \in Texts : SentimentRequest(text)
  \/ \E data \in Responses : SentimentResponse(data)
  \/ SentimentFailure

SpecSentiment == Init /\ [][NextSentiment]_vars

(***************************************************************************)
(* KeywordsDisplay: the keywords shown, fed by App's keywords state.       *)
(***************************************************************************)

\* Keywords as a sentiment result may carry them, and the lists of them.
RawKeywords == {"AI", "ai", "Joy", "joy", " "}
KeywordProps ==
  UNION {[1..n -> RawKeywords] : n \in 0..MaxKeywords}

\* String.prototype.toLowerCase on these keywords.
toLowerCase(k) ==
  CASE k = "AI" -> "ai"
    [] k = "Joy" -> "joy"
    [] OTHER -> k

\* kw && kw.trim()
NotBlank(k) == k \notin {"", " "}

\* slice(0, n) and slice(-n)
sliceFirst(q, n) == SubSeq(q, 1, Min({n, Len(q)}))
sliceLast(q, n) == SubSeq(q, Len(q) - Min({n, Len(q)}) + 1, Len(q))

\* The texts of newKeywords: the non-blank keywords, the first eight of
\* them, lower-cased.
newKeywords(kws) ==
  LET kept == sliceFirst(SelectSeq(kws, NotBlank), maxDisplayed)
  IN [i \in 1..Len(kept) |-> toLowerCase(kept[i])]

\* The keywords effect with its state updater: the new keywords whose text
\* is not displayed yet are appended and the last eight are kept.
keywordsEffect(prev, kws) ==
  IF kws = <<>> THEN prev
  ELSE LET existingTexts == {prev[i] : i \in 1..Len(prev)}
           IsNew(k) == k \notin existingTexts
           trulyNew == SelectSeq(newKeywords(kws), IsNew)
       IN IF trulyNew = <<>> THEN prev
          ELSE sliceLast(prev \o trulyNew, maxDisplayed)

Display(d, ev) ==
  /\ transcripts' = [transcripts EXCEPT !.display = d]
  /\ last' = ev
  /\ UNCHANGED <<clients, socks, deepgramRef, connectionStatus, capture, mounted>>

\* The keywords prop changes.
KeywordsChanged(kws) ==
  Display([transcripts.display EXCEPT !.keywords = keywordsEffect(@, kws)],
          [NoEv EXCEPT !.kind = "keywords", !.data.keywords = kws])

\* The isRecording prop changes: the cleanup of the effect clears the
\* timer, and the effect arms one when recording has stopped.
RecordingChanged ==
  LET d == transcripts.display
  IN Display([d EXCEPT !.isRecording = ~d.isRecording, !.timer = d.isRecording],
             [NoEv EXCEPT !.kind = "isRecording"])

\* The timer armed two seconds ago fires: the display is cleared.
ClearTimer ==
  /\ transcripts.display.timer
  /\ Display([transcripts.display EXCEPT !.keywords = <<>>, !.timer = FALSE],
             [NoEv EXCEPT !.kind = "clearKeywords"])

NextKeywords ==
  \/ \E kws \in KeywordProps : KeywordsChanged(kws)
  \/ RecordingChanged
  \/ ClearTimer

SpecKeywords == Init /\ [][NextKeywords]_vars

(***************************************************************************)
(* Properties.                                                             *)
(***************************************************************************)

Active == {s \in SockIds : socks[s].rs \in {"CONNECTING", "OPEN"}}

\* The session's service is Connected: isConnected with its socket OPEN.
SessionConnected ==
  /\ deepgramRef # NullRef
  /\ clients[deepgramRef].isConnected
  /\ readyState(socks, clients[deepgramRef].ws) = "OPEN"

\* C1 (as claimed): in one session at most one relay WebSocket is CONNECTING
\* or OPEN at any time.
C1_AtMostOneActiveSocket == Cardinality(Active) <= 1

\* C2 (as claimed): a reconnect timer armed before a disconnect() call never
\* opens a new socket, i.e. no such timer ever fires into connect().
C2_DisconnectCancelsReconnect == ~(last.kind = "timer" /\ last.stale)

\* C3 (as claimed): a close with code 1006 while reconnectAttempts = a is
\* below maxReconnectAttempts schedules a reconnect with delay
\* reconnectDelay * (a + 1).
C3_Reconnect1006 ==
  (last.kind = "close" /\ last.code = 1006 /\ last.pre < maxReconnectAttempts)
    => last.sched = reconnectDelay * (last.pre + 1)

\* C4 (as claimed): after an abnormal close (code other than 1000) processed
\* with reconnectAttempts equal to maxReconnectAttempts, no reconnect is
\* scheduled and the session's connection status is 'error'.
C4_ExhaustedIsError ==
  (last.kind = "close" /\ last.code # 1000 /\ last.pre = maxReconnectAttempts)
    => (last.sched = 0 /\ connectionStatus = "error")

\* C5: reconnectAttempts never exceeds maxReconnectAttempts, whatever the
\* interleaving of close events, timers and connect()/disconnect() calls.
C5_AttemptsBounded ==
  \A c \in ClientIds : clients[c].reconnectAttempts <= maxReconnectAttempts

\* C5 witness: a socket closed abnormally with the counter at its cap.
C5_Witness ==
  /\ last.kind = "close" /\ last.code = 1011
  /\ last.pre = maxReconnectAttempts
  /\ clients[TheClient].reconnectAttempts = maxReconnectAttempts

C8_ResolvedOnlyByConnectedMessage ==
  /\ last.settle = "resolved" =>
       (last.kind = "message" /\ last.emitted = <<"connected">>)
  /\ last.kind = "open" =>
       /\ last.settle = "none"
       /\ last.emitted = <<>>
       /\ clients[TheClient].isConnected = last.conn
  /\ \A s \in SockIds : socks[s].rs = "CONNECTING" => socks[s].promise = "pending"

\* C8 witness: a socket has opened and its promise is still pending, the
\* service not connected.
C8_Witness ==
  /\ last.kind = "open"
  /\ ~clients[TheClient].isConnected
  /\ \E s \in SockIds : socks[s].rs = "OPEN" /\ socks[s].promise = "pending"

\* C9: after a socket error on a socket whose promise had not been resolved,
\* the promise is rejected, exactly one 'error' event has been emitted by the
\* handler, and isConnected is false.
C9_ErrorRejects ==
  \A s \in SockIds :
    (socks[s].rs = "CLOSED" /\ last.was # "resolved") =>
      /\ last.kind = "error"
      /\ socks[s].promise = "rejected"
      /\ last.emitted = <<"error">>
      /\ ~clients[socks[s].owner].isConnected

\* C9 witness: the error event of a socket whose promise was pending.
C9_Witness ==
  /\ last.kind = "error" /\ last.was = "pending" /\ last.settle = "rejected"
  /\ \E s \in SockIds : socks[s].rs = "CLOSED"

\* C10 (as claimed): the start path invokes startRecording only after the
\* connect() of the session's service has resolved; when the awaited
\* connect() rejects, startRecording is not invoked and the status is 'error'.
C10_CaptureOnlyAfterConnect ==
  /\ last.startRec =>
       /\ deepgramRef # NullRef
       /\ \E s \in Owned(socks, deepgramRef) : socks[s].promise = "resolved"
  /\ (last.cont /\ last.settle = "rejected") =>
       (~last.startRec /\ connectionStatus = "error")

\* C11 (as claimed): a stop toggle calls stopRecording, stopAudioStreaming
\* and disconnectDeepgram in that order, opens no relay connection, starts
\* no capture, and leaves the relay disconnected: no socket of the session
\* is CONNECTING or OPEN, and the status is 'idle'.
C11_StopEndsDisconnected ==
  last.kind = "toggleStop" =>
    /\ last.calls = <<"stopRecording", "stopAudioStreaming", "disconnectDeepgram">>
    /\ ~last.startRec
    /\ ~capture.streaming
    /\ deepgramRef = NullRef
    /\ Active = {}
    /\ connectionStatus = "idle"

\* C12 (as claimed): after a transcript event with isFinal = true the
\* interim slot is empty, whatever text the event carries.
C12_FinalClearsInterim ==
  /\ (last.kind = "transcript" /\ last.isFinal) =>
       (transcripts.pulse.interim = <<>> /\ transcripts.app.interim = <<>>)
  /\ (last.kind = "hookTranscript" /\ last.isFinal) =>
       transcripts.hook.interim = <<>>

\* The trimmed texts of the final events of q whose trimmed text is not
\* empty, in order.
RECURSIVE FinalTexts(_)
FinalTexts(q) ==
  IF q = <<>> THEN <<>>
  ELSE (IF Head(q).isFinal /\ trim(Head(q).transcript) # <<>>
        THEN <<trim(Head(q).transcript)>> ELSE <<>>) \o FinalTexts(Tail(q))

\* C13: the final-transcript log, of the session and of App, is the
\* sequence of the trimmed texts of the final events sent whose trimmed text
\* is not empty, in the order sent; after interim "hel", interim "hello",
\* final "hello world" the interim slot is empty and the log is exactly
\* <<"hello world">>.
C13_LogIsFinalTexts ==
  /\ transcripts.pulse.full = FinalTexts(transcripts.sent)
  /\ transcripts.app.full = FinalTexts(transcripts.sent)
  /\ transcripts.sent = <<[isFinal |-> FALSE, transcript |-> Hel],
                          [isFinal |-> FALSE, transcript |-> Hello],
                          [isFinal |-> TRUE, transcript |-> HelloWorld]>> =>
       /\ transcripts.pulse.interim = <<>>
       /\ transcripts.pulse.full = <<HelloWorld>>

\* C13 witness: connected, then the three events of the example.
C13_Witness ==
  /\ connectionStatus = "connected"
  /\ last.kind = "transcript"
  /\ transcripts.sent = <<[isFinal |-> FALSE, transcript |-> Hel],
                          [isFinal |-> FALSE, transcript |-> Hello],
                          [isFinal |-> TRUE, transcript |-> HelloWorld]>>
  /\ transcripts.pulse.full = <<HelloWorld>>

IsPrefix(a, b) == Len(a) <= Len(b) /\ SubSeq(b, 1, Len(a)) = a

\* C14 (as claimed): in every step the previous final-transcript log is a
\* prefix of the new one, for the log of AudioPulse, of App and of
\* useDeepgram.
C14_LogAppendOnly ==
  [][/\ IsPrefix(transcripts.pulse.full, transcripts'.pulse.full)
     /\ IsPrefix(transcripts.app.full, transcripts'.app.full)
     /\ IsPrefix(transcripts.hook.full, transcripts'.hook.full)]_vars

\* C15 (as claimed): whenever no microphone request is pending, no fade is
\* running and no start has failed, isRecording is true exactly when the
\* most recent of the startRecording and stopRecording calls was
\* startRecording.
C15_RecordingIffLastCallStart ==
  (capture.micReqs = 0 /\ capture.fades = <<>> /\ ~capture.error) =>
    (capture.isRecording <=> capture.lastCall = "start")

\* C16 (as claimed): over any sequence of startRecording and stopRecording
\* calls the microphone stream and audio context are acquired at most once,
\* and at most one fade-out loop is scheduled at a time.
C16_NoDuplicateResources ==
  capture.acquired <= 1 /\ Len(capture.fades) <= 1

\* C17 (as claimed): while recording continues after a successful
\* startRecording, an iteration of the level-monitor loop is scheduled.
C17_MonitorRunsWhileRecording ==
  (capture.isRecording /\ capture.fades = <<>>) => capture.monitor

\* C18: audioLevel, and the fadeLevel of every fade-out loop, is within
\* [0,1] in every state, whatever the monitor samples, fade steps and
\* start/stop calls.
C18_LevelInRange ==
  /\ capture.audioLevel \in Levels
  /\ \A i \in 1..Len(capture.fades) : capture.fades[i] \in Levels

\* C18 witness: a monitor iteration with the loudest sample has brought the
\* level to 1.
C18_Witness ==
  /\ last.kind = "monitorTick"
  /\ capture.audioLevel = LevelScale

\* C19, the steps of a fade: a step that keeps the fade going sets the level
\* to 0.9 of the previous one, strictly below it, with isRecording still
\* true; the step that ends it sets the level to 0 and isRecording to false
\* at once, and is taken exactly when 0.9 of the level is not above 0.01;
\* no monitor iteration is scheduled while a fade runs.
C19_FadeSteps ==
  /\ (last.kind \in {"stopRecording", "fadeTick"} /\ ~last.noop /\ capture.fades # <<>>) =>
       /\ capture.audioLevel = fadeStep(last.level)
       /\ capture.audioLevel < last.level
       /\ capture.audioLevel * 100 > LevelScale
       /\ capture.isRecording
  /\ (last.kind \in {"stopRecording", "fadeTick"} /\ ~last.noop /\ capture.fades = <<>>) =>
       /\ capture.audioLevel = 0
       /\ ~capture.isRecording
       /\ fadeStep(last.level) * 100 <= LevelScale
  /\ capture.fades # <<>> => ~capture.monitor

C20_NoFrameAfterStop ==
  /\ (last.kind \in {"portMessage", "dataAvailable", "dataRead"} /\ ~last.streamed) =>
       ~last.invoked
  /\ last.kind = "stopAudioStreaming" =>
       /\ ~capture.streaming
       /\ ~last.streamed => last.noop

\* A worklet message arriving after stopAudioStreaming, with a recorder
\* chunk still being read: the guard of the handlers drops it.
C20_Witness ==
  /\ last.kind = "portMessage" /\ ~last.streamed /\ ~last.invoked
  /\ capture.ported /\ capture.reads # {}

\* C23: a message that does not parse as JSON, or one of an unknown type,
\* is skipped: the task that handles it leaves every service (isConnected,
\* reconnectAttempts, timers), every socket and the session's status as
\* they were, emits no event and settles no promise.
C23_SkippedMessage ==
  [][(last'.kind = "message" /\ last'.msg \in {"unknown", "malformed"}) =>
       /\ clients' = clients
       /\ socks' = socks
       /\ connectionStatus' = connectionStatus
       /\ last'.emitted = <<>>
       /\ last'.settle = "none"
       /\ ~last'.cont]_vars

\* A malformed message was handled on a socket whose connect() promise is
\* still pending.
C23_Witness ==
  /\ last.kind = "message"
  /\ last.msg = "malformed"
  /\ \E s \in SockIds : socks[s].rs = "OPEN" /\ socks[s].promise = "pending"

\* C27: a 'connected' message resets the service's reconnect counter to 0;
\* a task that schedules a reconnect increments the counter by exactly one
\* and arms one timer whose delay is reconnectDelay times k, k being the
\* number of reconnects scheduled since the last 'connected' message; and
\* nothing else changes the counter.
C27_LinearBackoff ==
  [][LET a == clients[TheClient]
         b == clients'[TheClient]
         armed == Len(b.timers) > Len(a.timers)
         connected == last'.kind = "message" /\ last'.msg = "connected"
     IN /\ connected => b.reconnectAttempts = 0
        /\ armed => /\ b.reconnectAttempts = a.reconnectAttempts + 1
                    /\ Len(b.timers) = Len(a.timers) + 1
                    /\ b.timers[Len(b.timers)].delay = b.since * reconnectDelay
                    /\ b.since = a.since + 1
        /\ b.reconnectAttempts # a.reconnectAttempts => connected \/ armed]_vars

\* The second consecutive reconnect has been scheduled, with twice the
\* base delay.
C27_Witness ==
  /\ last.kind = "close"
  /\ last.sched = 2 * reconnectDelay
  /\ clients[TheClient].since = 2

\* C25: once the relay has sent an 'error' message on a socket, the close
\* event of that socket schedules no reconnect, whatever its close code.
C25_NoRetryAfterUpstreamError ==
  (last.kind = "close" /\ last.errored) => last.sched = 0

\* C24: an 'error' message of the relay ends the session: from the task
\* that handles it on, the socket it arrived on is closing or closed, no
\* frame is sent on it, and the session whose service owns it neither
\* records nor streams.
C24_UpstreamErrorEndsSession ==
  \A s \in SockIds :
    (socks[s].rs # "FREE" /\ socks[s].errored) =>
      /\ readyState(socks, s) \in {"CLOSING", "CLOSED"}
      /\ socks[s].owner = deepgramRef =>
            /\ ~capture.isRecording
            /\ ~capture.streaming
            /\ ~(last.kind = "frame" /\ last.sent /\ clients[deepgramRef].ws = s)

\* The edges of the connection state machine, as the session shows them:
\* a closed connection (Disconnected) is shown as 'idle'.
StatusEdge(a, b, explicit) ==
  \/ a = "idle" /\ b = "connecting"
  \/ a = "connecting" /\ b = "connected"
  \/ a \in {"connecting", "connected"} /\ b \in {"idle", "error"}
  \/ a = "error" /\ b \in {"connecting", "idle"}
  \/ b = "idle" /\ explicit

\* C26: the session's connection status changes only along the edges
\* idle -> connecting, connecting -> connected, connecting or connected ->
\* disconnected or error, disconnected or error -> connecting, and any
\* status -> idle on an explicit disconnect; so it becomes 'connected'
\* from 'connecting' only.
C26_StatusEdges ==
  [][connectionStatus' # connectionStatus =>
       StatusEdge(connectionStatus, connectionStatus', last'.kind = "toggleStop")]_vars

\* C29: when the microphone request of a startRecording call fails, the
\* error field is set, isRecording keeps its value (false unless another
\* call set it), no monitor iteration is scheduled, no microphone stream
\* appears and no new request is made; a microphone request is made by a
\* startRecording call only.
C29_MicFailureSurfaced ==
  [][(last'.kind = "micDenied" =>
        /\ capture'.error
        /\ capture'.isRecording = capture.isRecording
        /\ ~capture'.monitor
        /\ capture'.mediaStream = capture.mediaStream
        /\ capture'.acquired = capture.acquired
        /\ capture'.micReqs = capture.micReqs - 1)
     /\ (capture'.micReqs > capture.micReqs => last'.kind = "startRecording")]_vars

\* The only microphone request failed: the error is shown and nothing
\* records.
C29_Witness ==
  /\ last.kind = "micDenied"
  /\ capture.error
  /\ ~capture.isRecording
  /\ capture.micReqs = 0

\* C28: once the component is unmounted, no socket is connecting or open,
\* the frame callback is detached, and no microphone stream has live
\* tracks or an open audio context.
C28_TeardownReleasesAll ==
  ~mounted =>
    /\ Active = {}
    /\ ~capture.streaming
    /\ capture.live = 0

\* C21: frames reach the callback in the order they were produced: where
\* one capture strategy alone has been in use, worklet nodes or recorders,
\* a frame handed to the callback was produced after the one handed to it
\* before.
C21_FramesInOrder ==
  ~(capture.ported /\ capture.recorded) =>
    (last.invoked => last.frame > last.prev)

\* C22: a startAudioStreaming call on an initialized microphone, when its
\* module load has settled, starts either a worklet node or, the worklet
\* path having failed, a recorder, never both; and at no time are a worklet node and a recorder both
\* producing frames.
C22_OneStrategy ==
  [][/\ last'.kind = "addModule" =>
          ((capture'.worklets > capture.worklets) # (capture'.recorders > capture.recorders))
     /\ ~(capture'.worklets > 0 /\ capture'.recorders > 0)]_vars

C31_NormalCloseNoReconnect ==
  [][(last'.kind = "close" /\ last'.code = 1000) =>
       LET a == clients[TheClient]
           b == clients'[TheClient]
       IN /\ b.timers = a.timers
          /\ b.reconnectAttempts = a.reconnectAttempts
          /\ ~b.isConnected
          /\ last'.sched = 0
          /\ last'.emitted = <<"disconnected">>
          /\ last'.settle = "none"]_vars

\* A socket closed with code 1000 after an earlier reconnect had raised the
\* counter.
C31_Witness ==
  /\ last.kind = "close"
  /\ last.code = 1000
  /\ last.pre > 0
  /\ clients[TheClient].reconnectAttempts = last.pre

\* C32: a transcript event with isFinal = false and text t leaves the
\* interim slot equal to t, untrimmed, and leaves the final-transcript log
\* and the last final text as they were, in the session, in App and in the
\* useDeepgram hook.
C32_InterimReplaces ==
  [][/\ (last'.kind = "transcript" /\ ~last'.isFinal) =>
          /\ transcripts'.pulse.interim = last'.text
          /\ transcripts'.pulse.full = transcripts.pulse.full
          /\ transcripts'.pulse.current = transcripts.pulse.current
          /\ transcripts'.app.interim = last'.text
          /\ transcripts'.app.full = transcripts.app.full
          /\ transcripts'.app.current = transcripts.app.current
     /\ (last'.kind = "hookTranscript" /\ ~last'.isFinal) =>
          /\ transcripts'.hook.interim = last'.text
          /\ transcripts'.hook.full = transcripts.hook.full
          /\ transcripts'.hook.current = transcripts.hook.current]_vars

\* An interim text replaced another one after a final text had been logged.
C32_Witness ==
  /\ last.kind = "transcript" /\ ~last.isFinal
  /\ last.text = Hello
  /\ transcripts.pulse.interim = Hello
  /\ transcripts.pulse.full = <<Hel>>
  /\ Len(transcripts.sent) = 3
  /\ ~transcripts.sent[2].isFinal

\* C33: disconnect() leaves the service Idle and is idempotent: after the
\* call isConnected is false, this.ws is null, getConnectionStatus() is false
\* and sendAudio would send nothing; a disconnect() that follows another
\* changes no field of the service and no socket.
C33_DisconnectIdempotent ==
  [][last'.kind = "disconnect" =>
       LET a == clients[TheClient]
           b == clients'[TheClient]
       IN /\ ~b.isConnected
          /\ b.ws = NullRef
          /\ ~getConnectionStatus(clients', socks', TheClient)
          /\ ~sendAudioSends(clients', socks', TheClient)
          /\ (last.kind = "disconnect" => (b = a /\ socks' = socks))]_vars

\* C34: every connect() call settles: when the close handler of its socket
\* has run, the promise the call returned is resolved or rejected.
C34_ConnectSettles ==
  last.kind = "close" => last.was # "pending"

\* C35: an event emitted by a service the session has disconnected (its
\* this.ws is null) and replaced by another never changes the session's
\* connection status.
C35_LateEventsIgnored ==
  [][(/\ last'.own # 0
      /\ deepgramRef # NullRef
      /\ last'.own # deepgramRef
      /\ clients[last'.own].ws = NullRef) => connectionStatus' = connectionStatus]_vars

\* C36: when the connect attempt the session awaits fails with a socket
\* error, the close event that follows the error leaves the connection
\* status 'error'.
C36_ErrorSurvivesClose ==
  [][(/\ last.kind = "error" /\ last.cont
      /\ connectionStatus = "error"
      /\ last'.kind = "close") => connectionStatus' = "error"]_vars

\* C37: when startRecording fails because the microphone is denied, the
\* session is not left with its relay connection open while isRecording is
\* false and nothing is streaming.
C37_FailedStartReleasesRelay ==
  last.kind = "micDenied" =>
    ~(SessionConnected /\ ~capture.isRecording /\ ~capture.streaming)

\* C38: when stopAudioStreaming has been called while startAudioStreaming
\* awaited the load of the worklet module, the end of the await attaches no
\* worklet node and no recorder and leaves streaming stopped, whether the
\* load succeeded or failed.
C38_StopDuringLoadWins ==
  [][(last'.kind = "addModule" /\ ~capture.streaming) =>
       /\ ~capture'.streaming
       /\ capture'.nodeRef = capture.nodeRef
       /\ capture'.worklets = capture.worklets
       /\ capture'.recorders = capture.recorders]_vars

\* C39: on the recorder path, a chunk whose arrayBuffer() resolves after
\* stopAudioStreaming has detached the callback is dropped without calling
\* the detached (null) callback, so without raising an error.
C39_PendingFrameDropped ==
  last.kind = "dataRead" => ~last.threw

\* C40: the displayed keywords never hold two entries with the same
\* lower-cased text.
C40_DisplayedDistinct ==
  LET d == transcripts.display.keywords
  IN \A i, j \in 1..Len(d) : i # j => d[i] # d[j]

====
